---------------------------- MODULE Spec2Model ----------------------------
(***************************************************************************)
(* Model of src/newapp.py: a Streamlit script that lets a user chat with   *)
(* a tabular dataset.  Every widget interaction re-runs the script from    *)
(* top to bottom against the session state (messages, df, groq_api_key,    *)
(* groq_client).  One run is modelled as the sequence                      *)
(*   Sidebar -> Main -> Classify -> Synthesize -> Execute -> ScriptEnd     *)
(* whose position is held in pc.  The language-model gateway, the Groq     *)
(* constructor, the file parser, the snippet handed to exec() and the      *)
(* Streamlit display calls are external: their outcomes are chosen         *)
(* nondeterministically from small sets.                                   *)
(*                                                                         *)
(* Python objects that can be reached through two names are kept in heap:  *)
(* st.session_state.df is a reference into heap, and a snippet that binds  *)
(* result = df hands that same reference to the transcript.                *)
(***************************************************************************)
EXTENDS Integers, Sequences, FiniteSets, TLC

(***************************************************************************)
(* Bounds                                                                  *)
(***************************************************************************)
\* the transcript is capped: no prompt is submitted once it holds more
\* than MaxMessages - 2 entries
MaxMessages == 4
\* number of DataFrame objects the session may create by successful uploads
MaxObjs == 2
\* longest raw completion the extraction specification draws
MaxCompletionLen == 4

(***************************************************************************)
(* Values                                                                  *)
(***************************************************************************)
\* Python's None
None == [none |-> TRUE]

\* credential strings typed into the sidebar; "" is the empty text input
Keys == {"", "k1", "k2"}

\* user requests typed into st.chat_input (a str object)
Prompts == {[text |-> "show rows"]}

\* uploaded files: a file either parses to a dataset (a sequence of rows)
\* or makes pd.read_csv / pd.read_excel raise
Files == { [name |-> "a.csv", ok |-> TRUE,  data |-> <<1, 2>>],
           [name |-> "bad.csv", ok |-> FALSE, data |-> <<>>] }

\* Python truthiness of a str
Truthy(s) == s # ""

(***************************************************************************)
(* Strings.  A completion is a sequence of tokens; FENCE is the three      *)
(* backticks, PY the word python, so that <<FENCE, PY>> is the             *)
(* language-tagged fence and contains the generic fence as its prefix,     *)
(* exactly as in the text the code searches.                               *)
(***************************************************************************)
FENCE == "<fence>"
PY == "python"
SP == " "
\* what a raw completion is made of: fences, the language tag, whitespace
\* and other text
Tokens == {FENCE, PY, SP, "x"}

RECURSIVE strip(_)
\* str.strip(): drop leading and trailing whitespace
strip(s) ==
  IF s = <<>> THEN s
  ELSE IF Head(s) = SP THEN strip(Tail(s))
  ELSE IF s[Len(s)] = SP THEN strip(SubSeq(s, 1, Len(s) - 1))
  ELSE s

\* sep occurs in s at position i
OccursAt(s, sep, i) ==
  /\ i >= 1
  /\ i + Len(sep) - 1 <= Len(s)
  /\ SubSeq(s, i, i + Len(sep) - 1) = sep

\* Python's  sep in s
Contains(s, sep) == \E i \in 1..Len(s) : OccursAt(s, sep, i)

\* str.find(): the first position of sep in s, 0 when there is none
Find(s, sep) ==
  IF Contains(s, sep)
  THEN CHOOSE i \in 1..Len(s) :
         /\ OccursAt(s, sep, i)
         /\ \A j \in 1..(i - 1) : ~OccursAt(s, sep, j)
  ELSE 0

RECURSIVE split(_, _)
\* str.split(sep): the pieces between the non-overlapping occurrences of
\* sep, scanned from the left
split(s, sep) ==
  LET i == Find(s, sep) IN
  IF i = 0 THEN <<s>>
  ELSE <<SubSeq(s, 1, i - 1)>> \o split(SubSeq(s, i + Len(sep), Len(s)), sep)

(***************************************************************************)
(* Session state and script position                                       *)
(***************************************************************************)
VARIABLES
  messages,        \* st.session_state.messages
  df,              \* st.session_state.df: None or a reference [obj |-> i]
  groq_api_key,    \* st.session_state.groq_api_key
  groq_client,     \* st.session_state.groq_client: None or [api_key |-> k]
  heap,            \* heap[i]: current contents of DataFrame object i
  pc,              \* position of the running script, "Idle" between runs
  chat_input,      \* text the user submitted to the chat input for this run
  uploaded_file,   \* value of st.file_uploader while the sidebar runs
  prompt,          \* value returned by st.chat_input in this run
  classification,  \* local of the chat turn
  template,        \* which code_prompt generate_code built
  code,            \* local of the chat turn
  result,          \* local of the chat turn
  fig,             \* local of the chat turn
  chat_completion, \* outcome of the latest gateway call of this run
  sandbox,         \* exec_globals and stderr_capture after exec() returned
  context,         \* exec_globals as the latest exec() found it, and its df
  page,            \* what this run has put on the page (errors, labels)
  calls            \* pipeline functions invoked by this run, in order

vars == <<messages, df, groq_api_key, groq_client, heap, pc, chat_input,
          uploaded_file, prompt, classification, template, code, result, fig,
          chat_completion, sandbox, context, page, calls>>

session == <<messages, df, groq_api_key, groq_client, heap>>
locals == <<classification, template, code, result, fig,
            chat_completion, sandbox>>

\* lines 19-30: the state a new session starts with
Init ==
  /\ messages = <<>>
  /\ df = None
  /\ groq_api_key = ""
  /\ groq_client = None
  /\ heap = <<>>
  /\ pc = "Idle"
  /\ chat_input = None
  /\ uploaded_file = None
  /\ prompt = None
  /\ classification = None
  /\ template = "none"
  /\ code = None
  /\ result = None
  /\ fig = None
  /\ chat_completion = None
  /\ sandbox = None
  /\ context = None
  /\ page = <<>>
  /\ calls = <<>>

\* st.error(...) as an element of the page
Error(body) == [el |-> "error", body |-> body]
\* st.write(...) as an element of the page
Write(body) == [el |-> "write", body |-> body]

(***************************************************************************)
(* Sidebar (lines 208-235)                                                 *)
(***************************************************************************)
\* configure_groq: Groq(api_key=...) either returns a client bound to the
\* key, or raises and leaves st.session_state.groq_client as it was
configure_groq(client, api_key, ctor_ok) ==
  IF ctor_ok
  THEN [client |-> [api_key |-> api_key], ret |-> TRUE, errors |-> <<>>]
  ELSE [client |-> client, ret |-> FALSE,
        errors |-> <<Error(<<"Failed to configure Groq: ", "GroqError">>)>>]

\* lines 216-219: the credential text input
SidebarCredential(key, client, api_key, ctor_ok) ==
  IF api_key # key
  THEN IF Truthy(api_key)
       THEN LET c == configure_groq(client, api_key, ctor_ok) IN
            [key |-> api_key, client |-> c.client, errors |-> c.errors]
       ELSE [key |-> api_key, client |-> client, errors |-> <<>>]
  ELSE [key |-> key, client |-> client, errors |-> <<>>]

\* variant of SidebarUpload: a failed parse clears the dataset
SidebarUpload_ClearsOnFailure(d, h, file) ==
  IF file # None
  THEN IF file.ok
       THEN [df |-> [obj |-> Len(h) + 1],
             heap |-> Append(h, file.data),
             errors |-> <<>>]
       ELSE [df |-> None, heap |-> h,
             errors |-> <<Error(<<"Error loading file: ", "ParserError">>)>>]
  ELSE [df |-> d, heap |-> h, errors |-> <<>>]

\* lines 227-235: the file uploader
SidebarUpload(d, h, file) ==
  IF file # None
  THEN IF file.ok
       THEN [df |-> [obj |-> Len(h) + 1],
             heap |-> Append(h, file.data),
             errors |-> <<>>]
       ELSE [df |-> d, heap |-> h,
             errors |-> <<Error(<<"Error loading file: ", "ParserError">>)>>]
  ELSE [df |-> d, heap |-> h, errors |-> <<>>]

\* A script run starts: the widget values of this run are api_key,
\* uploaded_file and the text submitted to the chat input (None when the
\* run was triggered by another widget).
Sidebar ==
  /\ pc = "Idle"
  /\ \E api_key \in Keys, ctor_ok \in BOOLEAN,
        file \in Files \cup {None}, text \in Prompts \cup {None} :
       /\ (file # None /\ file.ok) => Len(heap) < MaxObjs
       /\ text # None => Len(messages) + 2 <= MaxMessages
       /\ LET c == SidebarCredential(groq_api_key, groq_client, api_key, ctor_ok)
              u == SidebarUpload(df, heap, file)
          IN /\ groq_api_key' = c.key
             /\ groq_client' = c.client
             /\ df' = u.df
             /\ heap' = u.heap
             /\ page' = c.errors \o u.errors
       /\ chat_input' = text
       /\ uploaded_file' = file
  /\ calls' = <<>>
  /\ pc' = "Main"
  /\ UNCHANGED <<messages, prompt, locals, context>>

(***************************************************************************)
(* Main app gate and chat input (lines 241-263, 300-325)                   *)
(***************************************************************************)
\* variant of Gate: the credential is not looked at
Gate_NoCredential(d, key) == d # None

\* line 241
Gate(d, key) == d # None /\ Truthy(key)

\* lines 301-325
Welcome == [el |-> "markdown", body |-> <<"## Welcome!">>]

Main ==
  /\ pc = "Main"
  /\ IF Gate(df, groq_api_key)
     THEN IF chat_input # None
          THEN \* lines 260-263
               /\ prompt' = chat_input
               /\ messages' = Append(messages,
                                [role |-> "user", content |-> chat_input.text])
               /\ pc' = "Classifying"
               /\ UNCHANGED page
          ELSE /\ pc' = "Idle"
               /\ UNCHANGED <<prompt, messages, page>>
     ELSE \* the chat input is never read
          /\ page' = Append(page, Welcome)
          /\ pc' = "Idle"
          /\ UNCHANGED <<prompt, messages>>
  \* the uploader's value is not read after the sidebar
  /\ uploaded_file' = None
  /\ UNCHANGED <<df, groq_api_key, groq_client, heap, chat_input, locals,
                 context, calls>>

(***************************************************************************)
(* Prompt classifier (lines 43-78)                                         *)
(***************************************************************************)
\* characters a classifier completion is made of
Digits == {"0", "1", "2"}
DigitVal == [c \in Digits |-> IF c = "0" THEN 0 ELSE IF c = "1" THEN 1 ELSE 2]

\* int() accepts a non-empty run of decimal digits
IsNumeral(s) == s # <<>> /\ \A i \in 1..Len(s) : s[i] \in Digits

RECURSIVE IntOf(_)
\* int() of a numeral, base 10
IntOf(s) ==
  IF s = <<>> THEN 0
  ELSE 10 * IntOf(SubSeq(s, 1, Len(s) - 1)) + DigitVal[s[Len(s)]]

\* what the chat completion call does: it raises, or returns a completion
\* whose first choice has the given content
ClassifierReplies ==
  { [exc |-> "APITimeoutError"],
    [content |-> <<"1">>], [content |-> <<"0">>], [content |-> <<"2">>],
    [content |-> <<SP, "0", SP>>], [content |-> <<"x">>] }

\* variant of classify_prompt: a failed call defaults to 0
classify_prompt_DefaultZero(client, reply) ==
  IF client = None
  THEN [ret |-> 1, errors |-> <<Error(<<"Groq client not configured">>)>>]
  ELSE IF "exc" \in DOMAIN reply
  THEN [ret |-> 0,
        errors |-> <<Error(<<"Classification error: ", reply.exc>>)>>]
  ELSE LET text == strip(reply.content) IN
       IF IsNumeral(text)
       THEN [ret |-> IntOf(text), errors |-> <<>>]
       ELSE [ret |-> 0,
             errors |-> <<Error(<<"Classification error: ", "ValueError">>)>>]

\* classify_prompt(prompt, df_info) under the given client and reply
classify_prompt(client, reply) ==
  IF client = None
  THEN [ret |-> 1, errors |-> <<Error(<<"Groq client not configured">>)>>]
  ELSE IF "exc" \in DOMAIN reply
  THEN [ret |-> 1,
        errors |-> <<Error(<<"Classification error: ", reply.exc>>)>>]
  ELSE LET text == strip(reply.content) IN
       IF IsNumeral(text)
       THEN [ret |-> IntOf(text), errors |-> <<>>]
       ELSE [ret |-> 1,
             errors |-> <<Error(<<"Classification error: ", "ValueError">>)>>]

\* line 269
ClassificationLabel(c) == IF c = 1 THEN "Data Query" ELSE "Visualization"

\* lines 267-269
Classify ==
  /\ pc = "Classifying"
  /\ \E reply \in ClassifierReplies :
       LET c == classify_prompt(groq_client, reply) IN
       /\ classification' = c.ret
       /\ chat_completion' = IF groq_client = None THEN None ELSE reply
       /\ page' = page \o c.errors
                    \o <<Write(<<"**Classification:** ", ClassificationLabel(c.ret)>>)>>
  /\ calls' = Append(calls, "classify_prompt")
  /\ pc' = "Synthesizing"
  /\ UNCHANGED <<session, chat_input, uploaded_file, prompt, template, code,
                 result, fig, sandbox, context>>

(***************************************************************************)
(* Code generator (lines 81-167)                                           *)
(***************************************************************************)
\* variant of ExtractCode: the generic fence is looked for first
ExtractCode_GenericFirst(raw) ==
  LET stripped == strip(raw) IN
  IF Contains(stripped, <<FENCE>>)
  THEN strip(split(split(stripped, <<FENCE>>)[2], <<FENCE>>)[1])
  ELSE IF Contains(stripped, <<FENCE, PY>>)
  THEN strip(split(split(stripped, <<FENCE, PY>>)[2], <<FENCE>>)[1])
  ELSE stripped

\* lines 157-164: the code carried by a raw completion
ExtractCode(raw) ==
  LET stripped == strip(raw) IN
  IF Contains(stripped, <<FENCE, PY>>)
  THEN strip(split(split(stripped, <<FENCE, PY>>)[2], <<FENCE>>)[1])
  ELSE IF Contains(stripped, <<FENCE>>)
  THEN strip(split(split(stripped, <<FENCE>>)[2], <<FENCE>>)[1])
  ELSE stripped

\* lines 89-148: the template the code prompt is built from
Template(c) == IF c = 1 THEN "query" ELSE "visualization"

CodeReplies ==
  { [exc |-> "APITimeoutError"],
    [content |-> <<>>],
    [content |-> <<FENCE, PY, SP, "x", SP, FENCE>>],
    [content |-> <<FENCE, FENCE, "x">>] }

\* generate_code(prompt, df_info, classification) under the given client
\* and reply; a str is returned as [text |-> ...]
generate_code(client, c, reply) ==
  IF client = None
  THEN [ret |-> None, template |-> "none",
        errors |-> <<Error(<<"Groq client not configured">>)>>]
  ELSE IF "exc" \in DOMAIN reply
  THEN [ret |-> None, template |-> Template(c),
        errors |-> <<Error(<<"Code generation error: ", reply.exc>>)>>]
  ELSE [ret |-> [text |-> ExtractCode(reply.content)],
        template |-> Template(c), errors |-> <<>>]

\* variant of CodeObtained: only None counts as no code
CodeObtained_NotNone(c) == c # None

\* line 273: truthiness of what generate_code returned
CodeObtained(c) == c # None /\ c.text # <<>>

FailedToGenerate == "Failed to generate code. Please try again."
NoResult == "No result generated. Please try rephrasing your request."

\* lines 271-275 and 292-298
Synthesize ==
  /\ pc = "Synthesizing"
  /\ \E reply \in CodeReplies :
       LET g == generate_code(groq_client, classification, reply) IN
       /\ code' = g.ret
       /\ chat_completion' = IF groq_client = None THEN None ELSE reply
       /\ template' = g.template
       /\ IF CodeObtained(g.ret)
          THEN /\ page' = page \o g.errors \o <<[el |-> "code", body |-> g.ret.text]>>
               /\ pc' = "Executing"
               /\ UNCHANGED messages
          ELSE /\ page' = page \o g.errors \o <<Error(<<FailedToGenerate>>)>>
               /\ messages' = Append(messages,
                                [role |-> "assistant", error |-> FailedToGenerate])
               /\ pc' = "Recorded"
  /\ calls' = Append(calls, "generate_code")
  /\ UNCHANGED <<df, groq_api_key, groq_client, heap, chat_input,
                 uploaded_file, prompt, classification, result, fig, sandbox,
                 context>>

(***************************************************************************)
(* Code executor (lines 170-195)                                           *)
(***************************************************************************)
\* What exec(code, exec_globals) does is decided by the snippet.  A snippet
\* may change df in place, bind result to nothing, to a new table or to df
\* itself, bind fig, write to stderr and raise; it binds and mutates before
\* it fails.
Snippets ==
  [ mutates : BOOLEAN,
    result  : {"none", "copy", "alias"},
    fig     : BOOLEAN,
    stderr  : {"", "FutureWarning"},
    fault   : {"", "KeyError"} ]

\* lines 172-179: the context a snippet starts from, with df shown by the
\* contents of the object it is bound to; nothing of an earlier call is
\* carried into the dictionary
exec_globals(d, h) == [df |-> h[d.obj], result |-> None, fig |-> None]

\* an in-place change of a DataFrame: df.drop(df.index, inplace=True)
Mutate(rows) == <<>>

\* exec_globals and the heap after exec(code, exec_globals), lines 172-185;
\* exec_globals['df'] is the caller's object d, not a copy of it
Exec(d, h, run) ==
  [ result |-> IF run.result = "alias" THEN [ref |-> d.obj]
               ELSE IF run.result = "copy" THEN [table |-> h[d.obj]]
               ELSE None,
    fig    |-> IF run.fig THEN [figure |-> "px.bar"] ELSE None,
    heap   |-> IF run.mutates THEN [h EXCEPT ![d.obj] = Mutate(@)] ELSE h ]

\* variant of execute_code: the stderr buffer is not looked at
execute_code_IgnoreStderr(c, d, h, run) ==
  LET g == Exec(d, h, run) IN
  IF run.fault # ""
  THEN [result |-> None, fig |-> None, heap |-> g.heap,
        errors |-> <<Error(<<"Code execution failed:", run.fault>>)>>]
  ELSE [result |-> g.result, fig |-> g.fig, heap |-> g.heap, errors |-> <<>>]

\* variant of execute_code: only the result binding is returned
execute_code_DropsFig(c, d, h, run) ==
  LET g == Exec(d, h, run) IN
  IF run.fault # ""
  THEN [result |-> None, fig |-> None, heap |-> g.heap,
        errors |-> <<Error(<<"Code execution failed:", run.fault>>)>>]
  ELSE IF run.stderr # ""
  THEN [result |-> None, fig |-> None, heap |-> g.heap,
        errors |-> <<Error(<<"Execution error: ", run.stderr>>)>>]
  ELSE [result |-> g.result, fig |-> None, heap |-> g.heap, errors |-> <<>>]

\* execute_code(code, df) with the snippet behaving as run
execute_code(c, d, h, run) ==
  LET g == Exec(d, h, run) IN
  IF run.fault # ""
  THEN [result |-> None, fig |-> None, heap |-> g.heap,
        errors |-> <<Error(<<"Code execution failed:", run.fault>>)>>]
  ELSE IF run.stderr # ""
  THEN [result |-> None, fig |-> None, heap |-> g.heap,
        errors |-> <<Error(<<"Execution error: ", run.stderr>>)>>]
  ELSE [result |-> g.result, fig |-> g.fig, heap |-> g.heap, errors |-> <<>>]

\* exec_globals.get('result'), exec_globals.get('fig') and the contents of
\* stderr_capture when exec() has returned or raised
SandboxAfter(d, h, run) ==
  LET g == Exec(d, h, run) IN
  [result |-> g.result, fig |-> g.fig, stderr |-> run.stderr, fault |-> run.fault]

(***************************************************************************)
(* Chat turn: response assembly (lines 276-291)                            *)
(***************************************************************************)
\* variant of response_data: the classification is not looked at
response_data_AnyArtifact(c, cd, r, f) ==
  IF r # None
  THEN [role |-> "assistant", code |-> cd.text, result |-> r]
  ELSE IF f # None
  THEN [role |-> "assistant", code |-> cd.text, figure |-> f]
  ELSE [role |-> "assistant", code |-> cd.text, error |-> NoResult]

\* variant of response_data: a Query entry stores both returned values
response_data_KeepsBoth(c, cd, r, f) ==
  IF c = 1 /\ r # None
  THEN [role |-> "assistant", code |-> cd.text, result |-> r, figure |-> f]
  ELSE IF c = 0 /\ f # None
  THEN [role |-> "assistant", code |-> cd.text, figure |-> f]
  ELSE [role |-> "assistant", code |-> cd.text, error |-> NoResult]

\* lines 278-289: the assistant entry built from the turn's locals
response_data(c, cd, r, f) ==
  IF c = 1 /\ r # None
  THEN [role |-> "assistant", code |-> cd.text, result |-> r]
  ELSE IF c = 0 /\ f # None
  THEN [role |-> "assistant", code |-> cd.text, figure |-> f]
  ELSE [role |-> "assistant", code |-> cd.text, error |-> NoResult]

\* the entry is drawn by st.dataframe or st.plotly_chart before it is stored
Displays(entry) == "result" \in DOMAIN entry \/ "figure" \in DOMAIN entry

\* lines 276-291.  display_ok: st.dataframe / st.plotly_chart accepts the
\* object; otherwise it raises and the run ends before line 291.
Execute ==
  /\ pc = "Executing"
  /\ \E run \in Snippets, display_ok \in BOOLEAN :
       LET x == execute_code(code, df, heap, run)
           entry == response_data(classification, code, x.result, x.fig)
       IN /\ sandbox' = SandboxAfter(df, heap, run)
          /\ context' = [obj |-> df.obj, globals |-> exec_globals(df, heap)]
          /\ result' = x.result
          /\ fig' = x.fig
          /\ heap' = x.heap
          /\ IF Displays(entry) /\ ~display_ok
             THEN /\ page' = page \o x.errors \o <<[el |-> "exception", body |-> <<"StreamlitAPIException">>]>>
                  /\ pc' = "Crashed"
                  /\ UNCHANGED messages
             ELSE /\ page' = page \o x.errors
                        \o (IF "error" \in DOMAIN entry
                            THEN <<Error(<<entry.error>>)>> ELSE <<>>)
                  /\ messages' = Append(messages, entry)
                  /\ pc' = "Recorded"
  /\ calls' = Append(calls, "execute_code")
  /\ UNCHANGED <<df, groq_api_key, groq_client, chat_input, uploaded_file,
                 prompt, classification, template, code, chat_completion>>

\* variant of ScriptEnd: a run ended by an exception drops the dataset
ScriptEnd_DropsDataset ==
  /\ pc \in {"Recorded", "Crashed"}
  /\ pc' = "Idle"
  /\ prompt' = None
  /\ classification' = None
  /\ template' = "none"
  /\ code' = None
  /\ result' = None
  /\ fig' = None
  /\ chat_completion' = None
  /\ sandbox' = None
  /\ df' = IF pc = "Crashed" THEN None ELSE df
  /\ UNCHANGED <<messages, groq_api_key, groq_client, heap, chat_input,
                 uploaded_file, context, page, calls>>

\* the run reaches the footer (lines 327-334), or was ended by an uncaught
\* exception; the locals of the run are gone
ScriptEnd ==
  /\ pc \in {"Recorded", "Crashed"}
  /\ pc' = "Idle"
  /\ prompt' = None
  /\ classification' = None
  /\ template' = "none"
  /\ code' = None
  /\ result' = None
  /\ fig' = None
  /\ chat_completion' = None
  /\ sandbox' = None
  /\ UNCHANGED <<session, chat_input, uploaded_file, context, page, calls>>

Next == Sidebar \/ Main \/ Classify \/ Synthesize \/ Execute \/ ScriptEnd

Spec == Init /\ [][Next]_vars

(***************************************************************************)
(* Code extraction on its own: generate_code applied to every raw          *)
(* completion of at most MaxCompletionLen tokens                           *)
(***************************************************************************)
Completions == UNION {[1..n -> Tokens] : n \in 0..MaxCompletionLen}

InitExtract ==
  /\ chat_completion \in {[content |-> c] : c \in Completions}
  /\ pc = "Extracting"
  /\ groq_client = [api_key |-> "k1"]
  /\ groq_api_key = "k1"
  /\ classification = 1
  /\ messages = <<>>
  /\ df = None
  /\ heap = <<>>
  /\ chat_input = None
  /\ uploaded_file = None
  /\ prompt = None
  /\ template = "none"
  /\ code = None
  /\ result = None
  /\ fig = None
  /\ sandbox = None
  /\ context = None
  /\ page = <<>>
  /\ calls = <<>>

\* lines 151-164: generate_code on the completion received
Extract ==
  /\ pc = "Extracting"
  /\ LET g == generate_code(groq_client, classification, chat_completion) IN
     /\ code' = g.ret
     /\ template' = g.template
  /\ calls' = Append(calls, "generate_code")
  /\ pc' = "Extracted"
  /\ UNCHANGED <<session, chat_input, uploaded_file, prompt, classification,
                 result, fig, chat_completion, sandbox, context, page>>

NextExtract == Extract

SpecExtract == InitExtract /\ [][NextExtract]_vars

(***************************************************************************)
(* Properties                                                              *)
(***************************************************************************)
Last(s) == s[Len(s)]
Range(s) == {s[i] : i \in 1..Len(s)}
IsPrefix(s, t) == Len(s) <= Len(t) /\ SubSeq(t, 1, Len(s)) = s

\* the turn has passed synthesis
PastSynthesis == pc \in {"Executing", "Recorded", "Crashed"}

\* exec() left text in stderr_capture or raised
ExecutionFailed ==
  sandbox # None /\ (sandbox.stderr # "" \/ sandbox.fault # "")

\* C1: a turn whose intent is Query (classification 1) records a table or
\* an error and never a chart; a turn whose intent is Visualization records
\* a chart or an error and never a table; when the artifact of the turn's
\* own kind is missing the entry is an error, whatever else was populated.
C1_IntentDecidesArtifact ==
  pc = "Recorded" =>
    LET e == Last(messages) IN
    /\ e.role = "assistant"
    /\ "result" \in DOMAIN e \/ "figure" \in DOMAIN e \/ "error" \in DOMAIN e
    /\ classification = 1 =>
         /\ "figure" \notin DOMAIN e
         /\ "result" \in DOMAIN e => e.result # None
         /\ result = None => "error" \in DOMAIN e
    /\ classification # 1 =>
         /\ "result" \notin DOMAIN e
         /\ "figure" \in DOMAIN e => e.figure # None
         /\ fig = None => "error" \in DOMAIN e

\* a Visualization turn whose snippet bound only result was recorded as an
\* error
C1_Witness ==
  /\ pc = "Recorded"
  /\ classification = 0
  /\ result # None
  /\ fig = None
  /\ "error" \in DOMAIN Last(messages)

\* C2: a prompt submitted while the credential is empty or the dataset is
\* absent ends the run at once: nothing is appended to the transcript and
\* no pipeline function is invoked.
C2_RejectedBeforeClassifying ==
  [][ (pc = "Main" /\ chat_input # None /\ (df = None \/ groq_api_key = ""))
        => (pc' = "Idle" /\ messages' = messages /\ calls' = <<>>) ]_vars

\* a prompt was submitted to a session that has a dataset and a transcript
\* but an empty credential, and the run ended on the welcome page
C2_Witness ==
  /\ pc = "Idle"
  /\ chat_input # None
  /\ groq_api_key = ""
  /\ df # None
  /\ messages # <<>>
  /\ page # <<>>
  /\ Last(page) = Welcome

\* C3: a turn is admitted to Classifying only with a gateway client that
\* was constructed from the credential currently stored.
C3_ClientBoundToCredential ==
  pc = "Classifying" =>
    /\ groq_client # None
    /\ groq_client.api_key = groq_api_key

\* the classifier call raised, or its completion is not a numeral
ClassifierFailed(r) ==
  /\ r # None
  /\ \/ "exc" \in DOMAIN r
     \/ LET t == strip(r.content) IN
        t = <<>> \/ \E i \in 1..Len(t) : t[i] \notin Digits

\* positions of the "Classification error: ..." messages on a page
ClassificationErrors(pg) ==
  {i \in 1..Len(pg) :
     pg[i].el = "error" /\ pg[i].body[1] = "Classification error: "}

C5_SynthesisFailureRecorded ==
  /\ pc \in {"Executing", "Crashed"} => (code # None /\ code.text # <<>>)
  /\ (PastSynthesis /\ chat_completion # None /\ "exc" \in DOMAIN chat_completion)
       => code = None
  /\ (pc = "Recorded" /\ (code = None \/ code.text = <<>>)) =>
       /\ calls = <<"classify_prompt", "generate_code">>
       /\ Len(messages) >= 2
       /\ Last(messages) = [role |-> "assistant", error |-> FailedToGenerate]
       /\ messages[Len(messages) - 1] = [role |-> "user", content |-> prompt.text]

\* a completion was received but it carried no code, and the turn was
\* recorded
C5_Witness ==
  /\ pc = "Recorded"
  /\ code # None
  /\ code.text = <<>>
  /\ Last(messages) = [role |-> "assistant", error |-> FailedToGenerate]

\* C6: when exec() leaves stderr output or raises, the turn is recorded
\* with an entry that carries an error and neither a table nor a chart,
\* whatever the snippet had bound to result or fig.
C6_FailedExecutionIsFailure ==
  (pc \in {"Recorded", "Crashed"} /\ ExecutionFailed) =>
    /\ pc = "Recorded"
    /\ LET e == Last(messages) IN
       /\ e.role = "assistant"
       /\ "error" \in DOMAIN e
       /\ "result" \notin DOMAIN e
       /\ "figure" \notin DOMAIN e

\* a Query snippet bound result and then wrote to stderr, and the turn was
\* recorded
C6_Witness ==
  /\ pc = "Recorded"
  /\ sandbox # None
  /\ sandbox.fault = ""
  /\ sandbox.stderr # ""
  /\ sandbox.result # None
  /\ classification = 1

\* C7: when execution fails, the error recorded in the turn's entry is the
\* text of that failure (the stderr contents or the fault).
C7_ErrorTextRecorded ==
  (pc = "Recorded" /\ ExecutionFailed) =>
    LET e == Last(messages) IN
    /\ "error" \in DOMAIN e
    /\ e.error = IF sandbox.fault # "" THEN sandbox.fault ELSE sandbox.stderr

\* C8: execute_code leaves the contents of the session's dataset as they
\* were before the call.
C8_DatasetNotMutated ==
  [][ pc = "Executing" => heap'[df.obj] = heap[df.obj] ]_vars

\* C9: no step of a turn, failed or not, changes the dataset binding, the
\* stored credential or the gateway client, and a prompt submitted with the
\* dataset and credential present is admitted whatever happened before.
C9_TurnLeavesSessionUsable ==
  [][ /\ pc # "Idle" =>
           /\ df' = df
           /\ groq_api_key' = groq_api_key
           /\ groq_client' = groq_client
      /\ (pc = "Main" /\ chat_input # None /\ df # None /\ groq_api_key # "") =>
           /\ pc' = "Classifying"
           /\ messages' = Append(messages,
                            [role |-> "user", content |-> chat_input.text]) ]_vars

\* a turn was admitted right after a turn that ended in an error
C9_Witness ==
  /\ pc = "Classifying"
  /\ Len(messages) = 3
  /\ "error" \in DOMAIN messages[2]

\* an entry as its reader finds it: a result that is the session's
\* DataFrame object shows that object's current contents
Entry(m) ==
  IF "result" \in DOMAIN m /\ "ref" \in DOMAIN m.result
  THEN [m EXCEPT !.result = [table |-> heap[m.result.ref]]]
  ELSE m

Transcript == [i \in 1..Len(messages) |-> Entry(messages[i])]

\* C10: the transcript of every state is a prefix of the transcript of the
\* next: entries are only appended, never modified or removed.
C10_AppendOnly == [][ IsPrefix(Transcript, Transcript') ]_vars

\* positions of the "Error loading file: ..." messages on a page
LoadErrors(pg) ==
  {i \in 1..Len(pg) :
     pg[i].el = "error" /\ pg[i].body[1] = "Error loading file: "}

\* C11: an upload that fails to parse puts one "Error loading file" message
\* on the page and leaves the dataset binding and every dataset object as
\* they were; the binding changes only in a run whose upload parsed, and
\* then to a new object holding exactly the parsed rows.
C11_FailedUploadKeepsDataset ==
  [][ /\ (pc = "Idle" /\ uploaded_file' # None /\ ~uploaded_file'.ok) =>
           /\ df' = df
           /\ heap' = heap
           /\ Cardinality(LoadErrors(page')) = 1
      /\ df' # df =>
           /\ pc = "Idle"
           /\ uploaded_file' # None
           /\ uploaded_file'.ok
           /\ df' = [obj |-> Len(heap) + 1]
           /\ heap' = Append(heap, uploaded_file'.data)
           /\ LoadErrors(page') = {} ]_vars

\* a file that does not parse was uploaded to a session that holds a
\* dataset, and the error is on the page
C11_Witness ==
  /\ pc = "Main"
  /\ uploaded_file # None
  /\ ~uploaded_file.ok
  /\ df # None
  /\ LoadErrors(page) # {}

\* C12: an execution that follows another execution against the same
\* dataset object starts from the context the earlier one started from:
\* the same dataset, an empty result and an empty fig, with nothing the
\* earlier snippet defined or changed.
C12_FreshContext ==
  [][ (pc = "Executing" /\ context # None /\ context.obj = df.obj) =>
        context'.globals = context.globals ]_vars

\* C13: the classification is 1 (Query) or 0 (Visualization): the
\* completion "1" gives 1, "0" gives 0 and every other completion gives the
\* default 1; the template built and the slot accepted for the entry both
\* follow that value.
C13_TwoValuedIntent ==
  /\ pc = "Synthesizing" =>
       /\ classification \in {0, 1}
       /\ (chat_completion # None /\ "content" \in DOMAIN chat_completion) =>
            classification =
              IF strip(chat_completion.content) = <<"0">> THEN 0 ELSE 1
  /\ (pc = "Recorded" /\ Len(calls) = 3) =>
       /\ (template = "query" /\ result # None) =>
            "result" \in DOMAIN Last(messages)
       /\ (template = "visualization" /\ fig # None) =>
            "figure" \in DOMAIN Last(messages)

\* the pipeline functions in the order a turn invokes them
Stages == <<"classify_prompt", "generate_code", "execute_code">>

\* C14: a turn is admitted only from Idle through the gate, then runs
\* classify_prompt, generate_code and (only with code) execute_code, each
\* at most once and in that order; a turn that enters Executing leaves it
\* with its assistant entry appended, and a recorded turn returns to Idle.
C14_StageOrder ==
  [][ /\ IsPrefix(calls', Stages)
      /\ pc' = "Main" => pc = "Idle"
      /\ pc' = "Classifying" => pc = "Main"
      /\ pc' = "Synthesizing" => pc = "Classifying"
      /\ pc' = "Executing" =>
           (pc = "Synthesizing" /\ code' # None /\ code'.text # <<>>)
      /\ pc = "Executing" =>
           /\ pc' = "Recorded"
           /\ Len(messages') = Len(messages) + 1
           /\ Last(messages').role = "assistant"
      /\ pc' = "Recorded" => pc \in {"Synthesizing", "Executing"}
      /\ pc = "Recorded" => pc' = "Idle" ]_vars

\* exec() returned without a fault and left stderr_capture empty
ExecutionSucceeded ==
  sandbox # None /\ sandbox.stderr = "" /\ sandbox.fault = ""

\* C15 as stated: after a clean run the recorded outcome is the table when
\* result is bound, otherwise the chart when fig is bound, otherwise an
\* error, whatever the intent.
C15_TableFirst ==
  (pc = "Recorded" /\ ExecutionSucceeded) =>
    LET e == Last(messages) IN
    IF sandbox.result # None THEN "result" \in DOMAIN e
    ELSE IF sandbox.fig # None THEN "figure" \in DOMAIN e
    ELSE "error" \in DOMAIN e

\* C15 as amended: after a clean run the recorded outcome is chosen by the
\* classification: the table when it is 1 and result is bound, the chart
\* when it is 0 and fig is bound, otherwise the error "No result
\* generated..."; the entry carries the binding itself.
C15_IntentSelectsOutcome ==
  (pc = "Recorded" /\ ExecutionSucceeded) =>
    Last(messages) =
      IF classification = 1 /\ sandbox.result # None
      THEN [role |-> "assistant", code |-> code.text, result |-> sandbox.result]
      ELSE IF classification = 0 /\ sandbox.fig # None
      THEN [role |-> "assistant", code |-> code.text, figure |-> sandbox.fig]
      ELSE [role |-> "assistant", code |-> code.text, error |-> NoResult]

\* a Visualization turn whose snippet bound both result and fig was
\* recorded as a chart
C15_Witness ==
  /\ pc = "Recorded"
  /\ ExecutionSucceeded
  /\ classification = 0
  /\ sandbox.result # None
  /\ sandbox.fig # None
  /\ "figure" \in DOMAIN Last(messages)

\* the outcome slots of an entry that history rendering would draw
\* (lines 249-258)
PopulatedSlots(m) ==
  {k \in {"result", "figure", "error"} :
     /\ k \in DOMAIN m
     /\ IF k = "error" THEN m[k] # "" ELSE m[k] # None}

\* C16: every assistant entry of the transcript has exactly one of result,
\* figure and error, and that one is populated.
C16_ExactlyOneSlot ==
  \A i \in 1..Len(messages) :
    messages[i].role = "assistant" =>
      /\ Cardinality(DOMAIN messages[i] \cap {"result", "figure", "error"}) = 1
      /\ Cardinality(PopulatedSlots(messages[i])) = 1

\* the transcript holds a table entry, then a chart entry
C16_Witness ==
  /\ Len(messages) = 4
  /\ "result" \in DOMAIN messages[2]
  /\ "figure" \in DOMAIN messages[4]

\* C17: between runs the transcript has even length and alternates user,
\* assistant: every admitted turn has appended its user entry and exactly
\* one assistant entry, on every path.
C17_TwoEntriesPerTurn ==
  pc = "Idle" =>
    /\ Len(messages) % 2 = 0
    /\ \A i \in 1..Len(messages) :
         messages[i].role = IF i % 2 = 1 THEN "user" ELSE "assistant"

\* positions of the fences and of the python-tagged fences of a text
FenceAt(s) == {i \in 1..Len(s) : s[i] = FENCE}
PyFenceAt(s) == {i \in FenceAt(s) : i + 1 <= Len(s) /\ s[i + 1] = PY}
Min(S) == CHOOSE x \in S : \A y \in S : x <= y

\* the text from position start up to the next fence, or to the end when
\* no fence follows
Block(s, start) ==
  LET closing == {j \in FenceAt(s) : j >= start} IN
  SubSeq(s, start, IF closing = {} THEN Len(s) ELSE Min(closing) - 1)

\* the code the extraction rule assigns to a raw completion
RuleCode(raw) ==
  LET s == strip(raw) IN
  IF PyFenceAt(s) # {} THEN strip(Block(s, Min(PyFenceAt(s)) + 2))
  ELSE IF FenceAt(s) # {} THEN strip(Block(s, Min(FenceAt(s)) + 1))
  ELSE s

\* C18: the code extracted from a completion is the trimmed content that
\* follows its first python-tagged fence up to the next fence, even when a
\* generic fence comes earlier; without a tagged fence, the trimmed content
\* of the first fenced block; without any fence, the trimmed completion.
C18_ExtractionRule ==
  pc = "Extracted" => (code # None /\ code.text = RuleCode(chat_completion.content))

\* a completion with a generic fence before the python-tagged fence gave
\* the content after the tagged fence
C18_Witness ==
  /\ pc = "Extracted"
  /\ chat_completion.content = <<FENCE, FENCE, PY, "x">>
  /\ code.text = <<"x">>

=============================================================================
